---- MODULE Spec2Model ----
(***************************************************************************)
(* The discovery controller of the BrowseUsers page: two retrieval modes   *)
(* (Browse, Search), a debounced query, filter and page intents, and the   *)
(* asynchronous completions of the fetches they issue.                     *)
(*                                                                         *)
(* Every handler runs to completion (one action each); a fetch suspends at *)
(* the network call and its continuation (the setters after the await, the *)
(* catch and the finally) runs as one later action.  A closure created in  *)
(* a render sees the state values of that render: the debounce timer keeps *)
(* the searchUsers/browseUsers of the render that armed it.                *)
(***************************************************************************)
EXTENDS Integers, Sequences, FiniteSets, TLC

\* ---------------------------------------------------------------- bounds
MaxFetches == 3         \* fetches issued in one run
MaxTotalPages == 2      \* largest total_pages the service answers
MaxSkillSearches == 2   \* skill searches issued in one run of the skill selector
MaxSkills == 1          \* entries of each skill list of the setup wizard
MaxSubmits == 2         \* presses of Complete Setup in one run of the wizard
MaxPropPages == 12      \* largest totalPages prop the Pagination component is given

\* ------------------------------------------------------ program constants
DebounceMs == 300
PageSize == 12
SearchLimit == 20
maxVisiblePages == 5
MinSkillQuery == 2       \* SkillSelector searches from this trimmed length on
totalSteps == 5

TickMs == DebounceMs \div 2

\* ------------------------------------------------------------ input sets
\* Query strings are sequences of characters: the empty query, a query of white
\* space only, and a query with text after a leading blank.
Queries == {<<>>, <<" ">>, <<" ", "a">>}
Skills == {"", "Design"}
Locations == {"", "Remote"}
PopularSkillNames == {"Design"}
\* Skill-selector queries: trimmed lengths 0, 1, 2, and one of raw length 3 that
\* trims to a single character.
SkillQueries == {<<>>, <<"a">>, <<"a", "b">>, <<" ", "a", " ">>}
Levels == {"", "Beginner"}
\* Names typed in the wizard: empty, white space only, text after a blank.
Names == {<<>>, <<" ">>, <<" ", "A">>}
CreateOutcomes == {"ok", "notok", "throws"}
Undefined == "undefined"
Absent == "<absent>"    \* a request parameter that is not sent

\* ------------------------------------------------------------- variables
VARIABLES
    mounted,            \* the effects of the first render have run
    searchQuery, skillFilter, locationFilter,
    localSkillFilter, localLocationFilter,  \* the draft inputs of SearchFilters
    users, currentPage, totalPages, totalCount, hasNext, hasPrevious,
    loading, searchLoading,
    pageNumbers,        \* the page list the Pagination component rendered
    toast,              \* the toast.error message the last step raised
    timers,             \* pending setTimeout callbacks of the debounce effect
    inflight,           \* fetches awaiting their response
    nextId,             \* identity of the next fetch issued
    accepted,           \* history: the fetch whose response is displayed
    failed,             \* history: the fetch whose failure the last step handled
    sinceChange,        \* history: ms since the last query change (capped)
    burst,              \* history: the query changes since a timer last fired
    exc,                \* history: the Browse -> Search -> Browse excursion
    recovery,           \* history: the fetch issued right after a failure (its id)
    userAct,            \* history: "none" until the first user action, "page"
                        \* right after a page-change intent, else "other"
    \* SkillSelector
    selQuery,           \* searchQuery of the skill selector
    searchResults,      \* 0: the empty list; n: the skills found by search n
    showResults, isSearching,
    selTimer,           \* the pending debounce timer (debounceRef), by its query
    selInflight,        \* skill searches awaiting their response
    selNextId,          \* identity of the next skill search
    selectedLevel,
    \* ProfileSetup
    currentStep, isSubmitting,
    formData,           \* [name, isPublic]
    offeredSkills, wantedSkills,    \* the number of entries of each list
    submission,         \* the handleSubmit call that is suspended at an await
    skillRequests,      \* add_*_skill requests the last handleSubmit call sent
    navigated,          \* navigate('/App') was called
    submits,            \* handleSubmit calls so far
    createOutcome,      \* history: how create_profile of the last call ended
    wizLast             \* history: the last handler called and the step before it

intent == <<searchQuery, skillFilter, locationFilter>>
drafts == <<localSkillFilter, localLocationFilter>>
view == <<users, currentPage, totalPages, totalCount, hasNext, hasPrevious>>
flags == <<loading, searchLoading>>
hist == <<accepted, failed, sinceChange, burst, exc, recovery, userAct>>
browse == <<mounted, intent, drafts, view, flags, pageNumbers, toast, timers, inflight,
            nextId, hist>>
selector == <<selQuery, searchResults, showResults, isSearching, selTimer, selInflight,
              selNextId, selectedLevel>>
wizard == <<currentStep, isSubmitting, formData, offeredSkills, wantedSkills, submission,
            skillRequests, navigated, submits, createOutcome, wizLast>>
elsewhere == <<selector, wizard>>
vars == <<browse, elsewhere>>

\* ---------------------------------------------------------------- helpers
\* String.prototype.trim: drop leading and trailing white space.
RECURSIVE TrimLeft(_)
TrimLeft(q) == IF q # <<>> /\ Head(q) = " " THEN TrimLeft(Tail(q)) ELSE q

RECURSIVE TrimRight(_)
TrimRight(q) ==
    IF q # <<>> /\ q[Len(q)] = " " THEN TrimRight(SubSeq(q, 1, Len(q) - 1)) ELSE q

Trim(q) == TrimRight(TrimLeft(q))

\* JavaScript truthiness of a string: the empty string (and undefined) is falsy.
Truthy(s) == s # "" /\ s # "undefined"

\* Truthiness of the query as typed, which is a sequence of characters here.
QueryTruthy(q) == q # <<>>

NoReq == [id |-> 0, kind |-> "none", page |-> 0, size |-> 0, skill |-> "",
          location |-> "", q |-> <<>>]

\* `x || ''`
OrEmpty(x) == IF x = Undefined THEN "" ELSE x

\* A default parameter value applies when the argument is undefined.
Default(arg, dflt) == IF arg = Undefined THEN dflt ELSE arg

Min(a, b) == IF a < b THEN a ELSE b

\* ------------------------------------------------------------ the service
\* What the service answers to a Browse request r (n is the service's choice
\* of how many pages there are): the page asked for, and consistent metadata.
BrowseData(r, n) ==
    [users |-> r.id, page |-> r.page, total_pages |-> n,
     total_count |-> PageSize * (n - 1) + 1,
     has_next |-> r.page < n, has_previous |-> r.page > 1]

\* What the service answers to a Search request r: users and a count.
SearchData(r, n) == [users |-> r.id, total_count |-> n - 1]

\* ------------------------------------------------------------ browseUsers
\* The params object browseUsers builds: a filter is sent only when truthy.
BrowseParams(page, skill, location) ==
    [page |-> page, size |-> PageSize,
     skill |-> IF Truthy(skill) THEN skill ELSE Absent,
     location |-> IF Truthy(location) THEN location ELSE Absent]

\* browseUsers(page, skill, location) up to its await, called from a closure
\* whose skillFilter and locationFilter are cs and cl.
BrowseRequest(page, skillArg, locArg, cs, cl) ==
    LET p == BrowseParams(page, Default(skillArg, cs), Default(locArg, cl))
    IN  [id |-> nextId, kind |-> "browse", page |-> p.page, size |-> p.size,
         skill |-> p.skill, location |-> p.location, q |-> <<>>]

\* Mutant of SearchRequest: the trimmed query is sent.
SearchRequestTrimmed(query) ==
    [id |-> nextId, kind |-> "search", page |-> 0, size |-> SearchLimit,
     skill |-> Absent, location |-> Absent, q |-> Trim(query)]

\* searchUsers(query) past its guard, up to its await.
SearchRequest(query) ==
    [id |-> nextId, kind |-> "search", page |-> 0, size |-> SearchLimit,
     skill |-> Absent, location |-> Absent, q |-> query]

\* The test searchUsers makes to choose the fetch.
SelectedFetch(query) == IF Trim(query) = <<>> THEN "browse" ELSE "search"

\* Mutant of ClearedQueryPage: the page displayed is resumed.
ResumedPage == currentPage

\* The page searchUsers asks browseUsers for when the query is empty.
ClearedQueryPage == 1

\* Mutant of PageGuardOpen: handlePageChange does not look at the query.
PageGuardOpenAlways(query) == query = query

\* The test handlePageChange, the pagination block and the heading make.
PageGuardOpen(query) == ~QueryTruthy(query)

\* Mutant of SearchUsersRequest: going back to Browse drops the filters,
\* browseUsers(1, '', '').
SearchUsersRequestNoFilters(query, cs, cl) ==
    IF SelectedFetch(query) = "browse"
    THEN BrowseRequest(ClearedQueryPage, "", "", cs, cl)
    ELSE SearchRequest(query)

\* The request searchUsers(query) issues, run from a closure with filters cs, cl.
SearchUsersRequest(query, cs, cl) ==
    IF SelectedFetch(query) = "browse"
    THEN BrowseRequest(ClearedQueryPage, Undefined, Undefined, cs, cl)
    ELSE SearchRequest(query)

\* Sending a request: the loading flag of its kind goes on, the fetch is in flight.
Send(r) ==
    /\ nextId <= MaxFetches
    /\ inflight' = inflight \cup {r}
    /\ nextId' = nextId + 1
    /\ IF r.kind = "browse"
       THEN loading' = TRUE /\ UNCHANGED searchLoading
       ELSE searchLoading' = TRUE /\ UNCHANGED loading
    /\ recovery' = IF failed # NoReq THEN r.id ELSE 0

\* Mutant of DebounceEffect: no cleanup, the previous timer stays pending.
DebounceEffectNoCleanup(q, cs, cl) ==
    timers \cup {[q |-> q, skill |-> cs, location |-> cl, left |-> DebounceMs]}

\* Mutant of DebounceEffect: the timer is set without a delay.
DebounceEffectNoDelay(q, cs, cl) ==
    {[q |-> q, skill |-> cs, location |-> cl, left |-> 0]}

\* The debounce effect after a render with query q: the cleanup of the previous
\* run clears its timer, and a new timer is set whose callback is this render's.
DebounceEffect(q, cs, cl) ==
    {[q |-> q, skill |-> cs, location |-> cl, left |-> DebounceMs]}

\* ---------------------------------------------------------------- Pagination
Ellipsis == 0           \* the 'ellipsis' entry of the page list

\* <<a, a+1, ..., b>>
RECURSIVE Range(_, _)
Range(a, b) == IF a > b THEN <<>> ELSE <<a>> \o Range(a + 1, b)

\* The numbers of s that are greater than 1 (the guard of the near-the-end loop).
RECURSIVE Above1(_)
Above1(s) ==
    IF s = <<>> THEN <<>>
    ELSE (IF Head(s) > 1 THEN <<Head(s)>> ELSE <<>>) \o Above1(Tail(s))

\* Mutant of generatePageNumbers: the window is used from 5 pages on.
generatePageNumbersSmallLimit(cp, tp) ==
    IF tp <= maxVisiblePages - 1 THEN Range(1, tp)
    ELSE IF cp <= 3 THEN <<1>> \o Range(2, 4) \o <<Ellipsis, tp>>
    ELSE IF cp >= tp - 2 THEN <<1, Ellipsis>> \o Above1(Range(tp - 3, tp))
    ELSE <<1, Ellipsis>> \o Range(cp - 1, cp + 1) \o <<Ellipsis, tp>>

\* Mutant of generatePageNumbers: page 4 still counts as near the beginning.
generatePageNumbersWideStart(cp, tp) ==
    IF tp <= maxVisiblePages THEN Range(1, tp)
    ELSE IF cp <= 4 THEN <<1>> \o Range(2, 4) \o <<Ellipsis, tp>>
    ELSE IF cp >= tp - 2 THEN <<1, Ellipsis>> \o Above1(Range(tp - 3, tp))
    ELSE <<1, Ellipsis>> \o Range(cp - 1, cp + 1) \o <<Ellipsis, tp>>

generatePageNumbers(cp, tp) ==
    IF tp <= maxVisiblePages THEN Range(1, tp)
    ELSE IF cp <= 3 THEN <<1>> \o Range(2, 4) \o <<Ellipsis, tp>>
    ELSE IF cp >= tp - 2 THEN <<1, Ellipsis>> \o Above1(Range(tp - 3, tp))
    ELSE <<1, Ellipsis>> \o Range(cp - 1, cp + 1) \o <<Ellipsis, tp>>

\* The page block of BrowseUsers is rendered (and Pagination renders itself).
PaginationVisible == ~loading /\ PageGuardOpen(searchQuery) /\ totalPages > 1

\* The render that follows a step: where the page block is rendered, Pagination
\* computes its page list from the new currentPage and totalPages.
Render ==
    pageNumbers' =
        IF ~loading' /\ PageGuardOpen(searchQuery') /\ totalPages' > 1
        THEN generatePageNumbers(currentPage', totalPages')
        ELSE <<>>

\* The pages the buttons of Pagination pass to onPageChange.
PageClickTargets ==
    LET nums == pageNumbers
    IN  {nums[i] : i \in {j \in 1..Len(nums) : nums[j] # Ellipsis}}
        \cup (IF hasPrevious THEN {currentPage - 1} ELSE {})
        \cup (IF hasNext THEN {currentPage + 1} ELSE {})

\* ------------------------------------------------------------------ history
Quiescent == inflight = {} /\ timers = {}

\* The run of query changes (with waits between them) that the last steps form:
\* how many changes (3 stands for three or more), and whether the timer of the
\* last one has fired.  Any other step ends the run.
NoBurst == [n |-> 0, fired |-> FALSE]

BurstOnQuery == [n |-> IF burst.fired THEN 1 ELSE Min(burst.n + 1, 3), fired |-> FALSE]

BurstOnFire == [burst EXCEPT !.fired = TRUE]

\* No fetch is in flight and the view shows the Browse results of the stored
\* filters: the response displayed is that of a Browse fetch for these filters,
\* at the page displayed.
ShowsBrowseOfIntent ==
    /\ inflight = {}
    /\ accepted.kind = "browse" /\ users = accepted.id
    /\ accepted.skill = (IF skillFilter = "" THEN Absent ELSE skillFilter)
    /\ accepted.location = (IF locationFilter = "" THEN Absent ELSE locationFilter)
    /\ accepted.page = currentPage

\* The excursion out of Browse mode and back: phase "out" while the trimmed query
\* is non-empty, "back" once it is cleared, "issued" once the timer of the
\* clearing has issued its fetch (req).  clean says that the excursion started
\* from the displayed Browse results of the stored filters, with no fetch in
\* flight, and that no filter or page intent came since; skill, location and page are those at the start, and
\* are kept for a clean excursion only.
NoExc == [phase |-> "none", skill |-> "", location |-> "", page |-> 0,
          clean |-> FALSE, req |-> NoReq]

ExcOnQuery(q) ==
    LET was == Trim(searchQuery) # <<>>
        now == Trim(q) # <<>>
    IN  IF ~was /\ now
        THEN IF ShowsBrowseOfIntent
             THEN [phase |-> "out", skill |-> skillFilter, location |-> locationFilter,
                   page |-> currentPage, clean |-> TRUE, req |-> NoReq]
             ELSE [NoExc EXCEPT !.phase = "out"]
        ELSE IF was /\ ~now
        THEN [exc EXCEPT !.phase = "back"]
        ELSE exc

\* The excursion record after a filter or page intent.
ExcOnIntent ==
    IF exc.phase \in {"out", "back"} THEN [NoExc EXCEPT !.phase = exc.phase] ELSE NoExc

\* The excursion record after the debounce timer issued request r.
ExcOnFire(r) ==
    IF exc.phase = "back" /\ r.kind = "browse"
    THEN IF exc.clean THEN [exc EXCEPT !.phase = "issued", !.req = r] ELSE NoExc
    ELSE exc

\* The fetch issued by the step that directly follows the handling of a failure,
\* until another fetch is issued, it fails or another response is displayed.
RecoveryOnSettle(r, ok) ==
    IF ok THEN (IF r.id = recovery THEN recovery ELSE 0)
    ELSE (IF r.id = recovery THEN 0 ELSE recovery)

\* userAct after a step that is no user action.
ActKept == IF userAct = "none" THEN "none" ELSE "other"

\* The skill selector after construction (its first effect run finds the query
\* empty and writes the empty list and the hidden state again).
InitSelector ==
    /\ selQuery = <<>>
    /\ searchResults = 0
    /\ showResults = FALSE /\ isSearching = FALSE
    /\ selTimer = {} /\ selInflight = {}
    /\ selNextId = 1
    /\ selectedLevel = ""

\* No handleSubmit call is suspended.
NoSubmission == [phase |-> "idle", name |-> <<>>, offered |-> 0, wanted |-> 0]

\* ProfileSetup after construction.
InitWizard ==
    /\ currentStep = 1 /\ isSubmitting = FALSE
    /\ formData = [name |-> <<>>, isPublic |-> TRUE]
    /\ offeredSkills = 0 /\ wantedSkills = 0
    /\ submission = NoSubmission
    /\ skillRequests = 0 /\ navigated = FALSE /\ submits = 0
    /\ createOutcome = "none"
    /\ wizLast = [op |-> "none", from |-> 1]

\* ------------------------------------------------------------------ actions
Init ==
    /\ mounted = FALSE
    /\ searchQuery = <<>> /\ skillFilter = "" /\ locationFilter = ""
    /\ localSkillFilter = "" /\ localLocationFilter = ""
    /\ users = 0 /\ currentPage = 1 /\ totalPages = 1 /\ totalCount = 0
    /\ hasNext = FALSE /\ hasPrevious = FALSE
    /\ loading = FALSE /\ searchLoading = FALSE
    /\ pageNumbers = <<>>
    /\ toast = "none"
    /\ timers = {} /\ inflight = {} /\ nextId = 1
    /\ accepted = NoReq /\ failed = NoReq /\ sinceChange = DebounceMs
    /\ burst = NoBurst
    /\ exc = NoExc
    /\ recovery = 0
    /\ userAct = "none"
    /\ InitSelector /\ InitWizard

\* The effects of the first render: the debounce effect arms its timer, the
\* initial-load effect calls browseUsers() when the query is falsy.
Mount ==
    /\ ~mounted
    /\ mounted' = TRUE
    /\ timers' = DebounceEffect(searchQuery, skillFilter, locationFilter)
    /\ IF ~QueryTruthy(searchQuery)
       THEN Send(BrowseRequest(1, Undefined, Undefined, skillFilter, locationFilter))
       ELSE UNCHANGED <<inflight, nextId, flags, recovery>>
    /\ sinceChange' = 0
    /\ toast' = "none" /\ failed' = NoReq
    /\ UNCHANGED <<intent, view, accepted, burst, exc>>
    /\ userAct' = ActKept /\ UNCHANGED drafts
    /\ UNCHANGED elsewhere
    /\ Render

\* Mutant of QueryChange: typing a query resets the stored filters.
QueryChangeClearsFilters(q) ==
    /\ mounted
    /\ nextId <= MaxFetches
    /\ q # searchQuery
    /\ searchQuery' = q
    /\ skillFilter' = "" /\ locationFilter' = ""
    /\ timers' = DebounceEffect(q, "", "")
    /\ sinceChange' = 0
    /\ burst' = BurstOnQuery
    /\ exc' = ExcOnQuery(q)
    /\ toast' = "none" /\ failed' = NoReq
    /\ UNCHANGED <<mounted, view, flags, inflight, nextId, accepted, recovery>>
    /\ userAct' = "other" /\ UNCHANGED drafts
    /\ UNCHANGED elsewhere
    /\ Render

\* onChange of the search input: setSearchQuery(q); the render that follows
\* re-runs the debounce effect (its dependency changed).
QueryChange(q) ==
    /\ mounted
    /\ nextId <= MaxFetches             \* a run ends with its last fetch
    /\ q # searchQuery
    /\ searchQuery' = q
    /\ timers' = DebounceEffect(q, skillFilter, locationFilter)
    /\ sinceChange' = 0
    /\ burst' = BurstOnQuery
    /\ exc' = ExcOnQuery(q)
    /\ toast' = "none" /\ failed' = NoReq
    /\ UNCHANGED <<mounted, skillFilter, locationFilter, view, flags,
                   inflight, nextId, accepted, recovery>>
    /\ userAct' = "other" /\ UNCHANGED drafts
    /\ UNCHANGED elsewhere
    /\ Render

\* TickMs of time pass; a timer that is due fires before more time passes.
Tick ==
    /\ timers # {}
    /\ nextId <= MaxFetches
    /\ \A t \in timers : t.left > 0
    /\ timers' = {[t EXCEPT !.left = t.left - TickMs] : t \in timers}
    /\ sinceChange' = Min(sinceChange + TickMs, DebounceMs)
    /\ toast' = "none" /\ failed' = NoReq
    /\ UNCHANGED <<mounted, intent, view, flags, inflight, nextId, accepted, burst, exc,
                   recovery>>
    /\ userAct' = ActKept /\ UNCHANGED drafts
    /\ UNCHANGED elsewhere
    /\ Render

\* The timer callback: searchUsers(searchQuery) of the render that set the timer.
TimerFire(t) ==
    /\ t \in timers /\ t.left = 0
    /\ timers' = timers \ {t}
    /\ LET r == SearchUsersRequest(t.q, t.skill, t.location)
       IN  Send(r) /\ exc' = ExcOnFire(r)
    /\ burst' = BurstOnFire
    /\ toast' = "none" /\ failed' = NoReq
    /\ UNCHANGED <<mounted, intent, view, accepted, sinceChange>>
    /\ userAct' = ActKept /\ UNCHANGED drafts
    /\ UNCHANGED elsewhere
    /\ Render

\* handlePageChange(page)
handlePageChange(page) ==
    IF PageGuardOpen(searchQuery)
    THEN Send(BrowseRequest(page, Undefined, Undefined, skillFilter, locationFilter))
    ELSE UNCHANGED <<inflight, nextId, flags, recovery>>

\* A click on Previous, Next or a page number of the Pagination component.
PageClick(p) ==
    /\ mounted
    /\ PaginationVisible
    /\ p \in PageClickTargets
    /\ handlePageChange(p)
    /\ exc' = ExcOnIntent /\ burst' = NoBurst
    /\ toast' = "none" /\ failed' = NoReq
    /\ UNCHANGED <<mounted, intent, view, timers, accepted, sinceChange>>
    /\ userAct' = "page" /\ UNCHANGED drafts
    /\ UNCHANGED elsewhere
    /\ Render

\* handleFilterChange(filters), as the SearchFilters panel calls it (Apply, its
\* clear button, a badge removal, a quick skill filter).
handleFilterChange(fs, fl) ==
    /\ skillFilter' = OrEmpty(fs)
    /\ locationFilter' = OrEmpty(fl)
    /\ currentPage' = 1
    /\ Send(BrowseRequest(1, fs, fl, skillFilter, locationFilter))

SubmitFilters(fs, fl) ==
    /\ mounted
    /\ handleFilterChange(fs, fl)
    /\ exc' = ExcOnIntent /\ burst' = NoBurst
    /\ toast' = "none" /\ failed' = NoReq
    /\ UNCHANGED <<mounted, searchQuery, users, totalPages, totalCount, hasNext,
                   hasPrevious, timers, accepted, sinceChange>>
    /\ userAct' = "other" /\ UNCHANGED drafts
    /\ UNCHANGED elsewhere
    /\ Render

\* handleClearFilters of the SearchFilters panel: its clear button, shown while
\* a filter is applied, submits two empty filters.
PanelClearClick ==
    /\ mounted
    /\ Truthy(skillFilter) \/ Truthy(locationFilter)
    /\ handleFilterChange("", "")
    /\ exc' = ExcOnIntent /\ burst' = NoBurst
    /\ toast' = "none" /\ failed' = NoReq
    /\ UNCHANGED <<mounted, searchQuery, users, totalPages, totalCount, hasNext,
                   hasPrevious, timers, accepted, sinceChange>>
    /\ localSkillFilter' = "" /\ localLocationFilter' = ""
    /\ userAct' = "other"
    /\ UNCHANGED elsewhere
    /\ Render

\* handlePopularSkillClick(skillName): a chip of the Popular Skills card.
handlePopularSkillClick(skillName) ==
    /\ skillFilter' = skillName
    /\ currentPage' = 1
    /\ Send(BrowseRequest(1, skillName, locationFilter, skillFilter, locationFilter))

PopularSkillClick(skillName) ==
    /\ mounted
    /\ handlePopularSkillClick(skillName)
    /\ exc' = ExcOnIntent /\ burst' = NoBurst
    /\ toast' = "none" /\ failed' = NoReq
    /\ UNCHANGED <<mounted, searchQuery, locationFilter, users, totalPages, totalCount,
                   hasNext, hasPrevious, timers, accepted, sinceChange>>
    /\ userAct' = "other" /\ UNCHANGED drafts
    /\ UNCHANGED elsewhere
    /\ Render

\* The Clear Filters button of the results header, shown while a filter is set.
\* browseUsers(1) takes its filters from the defaults of the rendering closure.
ClearFiltersClick ==
    /\ mounted
    /\ Truthy(skillFilter) \/ Truthy(locationFilter)
    /\ skillFilter' = ""
    /\ locationFilter' = ""
    /\ currentPage' = 1
    /\ Send(BrowseRequest(1, Undefined, Undefined, skillFilter, locationFilter))
    /\ exc' = ExcOnIntent /\ burst' = NoBurst
    /\ toast' = "none" /\ failed' = NoReq
    /\ UNCHANGED <<mounted, searchQuery, users, totalPages, totalCount, hasNext,
                   hasPrevious, timers, accepted, sinceChange>>
    /\ userAct' = "other" /\ UNCHANGED drafts
    /\ UNCHANGED elsewhere
    /\ Render

\* The continuation of browseUsers after a successful response: the setters,
\* then finally.
BrowseApplied(data) ==
    /\ users' = data.users
    /\ currentPage' = data.page
    /\ totalPages' = data.total_pages
    /\ totalCount' = data.total_count
    /\ hasNext' = data.has_next
    /\ hasPrevious' = data.has_previous

BrowseOk(r, n) ==
    /\ r \in inflight /\ r.kind = "browse"
    /\ r.page >= 1                     \* the service rejects page < 1
    /\ inflight' = inflight \ {r}
    /\ burst' = NoBurst
    /\ BrowseApplied(BrowseData(r, n))
    /\ loading' = FALSE
    /\ accepted' = r
    /\ recovery' = RecoveryOnSettle(r, TRUE)
    /\ toast' = "none" /\ failed' = NoReq
    /\ UNCHANGED <<mounted, intent, searchLoading, timers, nextId, sinceChange, exc>>
    /\ userAct' = ActKept /\ UNCHANGED drafts
    /\ UNCHANGED elsewhere
    /\ Render

\* Mutant of BrowseFailed: the failure handler empties the result list.
BrowseFailedClears ==
    /\ toast' = "Failed to load users"
    /\ loading' = FALSE
    /\ users' = 0
    /\ UNCHANGED <<currentPage, totalPages, totalCount, hasNext, hasPrevious, searchLoading>>

\* Mutant of BrowseFailed: no finally, the loading flag stays on.
BrowseFailedKeepsLoading ==
    /\ toast' = "Failed to load users"
    /\ UNCHANGED <<view, loading, searchLoading>>

\* The continuation of browseUsers after a failed fetch: catch, then finally.
BrowseFailed ==
    /\ toast' = "Failed to load users"
    /\ loading' = FALSE
    /\ UNCHANGED <<view, searchLoading>>

BrowseFail(r) ==
    /\ r \in inflight /\ r.kind = "browse"
    /\ inflight' = inflight \ {r}
    /\ burst' = NoBurst
    /\ BrowseFailed
    /\ failed' = r
    /\ recovery' = RecoveryOnSettle(r, FALSE)
    /\ UNCHANGED <<mounted, intent, timers, nextId, accepted, sinceChange, exc>>
    /\ userAct' = ActKept /\ UNCHANGED drafts
    /\ UNCHANGED elsewhere
    /\ Render

\* Mutant of SearchApplied: the pagination of the last Browse response is kept.
SearchAppliedKeepsPages(data) ==
    /\ users' = data.users
    /\ totalCount' = data.total_count
    /\ UNCHANGED <<currentPage, totalPages, hasNext, hasPrevious>>

\* The continuation of searchUsers after a successful response.
SearchApplied(data) ==
    /\ users' = data.users
    /\ currentPage' = 1
    /\ totalPages' = 1
    /\ totalCount' = data.total_count
    /\ hasNext' = FALSE
    /\ hasPrevious' = FALSE

SearchOk(r, n) ==
    /\ r \in inflight /\ r.kind = "search"
    /\ inflight' = inflight \ {r}
    /\ burst' = NoBurst
    /\ SearchApplied(SearchData(r, n))
    /\ searchLoading' = FALSE
    /\ accepted' = r
    /\ recovery' = RecoveryOnSettle(r, TRUE)
    /\ toast' = "none" /\ failed' = NoReq
    /\ UNCHANGED <<mounted, intent, loading, timers, nextId, sinceChange, exc>>
    /\ userAct' = ActKept /\ UNCHANGED drafts
    /\ UNCHANGED elsewhere
    /\ Render

\* Mutant of SearchFailed: no finally, the searchLoading flag stays on.
SearchFailedKeepsLoading ==
    /\ toast' = "Failed to search users"
    /\ UNCHANGED <<view, loading, searchLoading>>

\* The continuation of searchUsers after a failed fetch.
SearchFailed ==
    /\ toast' = "Failed to search users"
    /\ searchLoading' = FALSE
    /\ UNCHANGED <<view, loading>>

SearchFail(r) ==
    /\ r \in inflight /\ r.kind = "search"
    /\ inflight' = inflight \ {r}
    /\ burst' = NoBurst
    /\ SearchFailed
    /\ failed' = r
    /\ recovery' = RecoveryOnSettle(r, FALSE)
    /\ UNCHANGED <<mounted, intent, timers, nextId, accepted, sinceChange, exc>>
    /\ userAct' = ActKept /\ UNCHANGED drafts
    /\ UNCHANGED elsewhere
    /\ Render

Next ==
    \/ Mount
    \/ \E q \in Queries : QueryChange(q)
    \/ Tick
    \/ \E t \in timers : TimerFire(t)
    \/ \E p \in 0..(MaxTotalPages + 1) : PageClick(p)
    \/ \E fs \in Skills, fl \in Locations : SubmitFilters(fs, fl)
    \/ \E name \in PopularSkillNames : PopularSkillClick(name)
    \/ PanelClearClick
    \/ ClearFiltersClick
    \/ \E r \in inflight, n \in 1..MaxTotalPages : BrowseOk(r, n)
    \/ \E r \in inflight : BrowseFail(r)
    \/ \E r \in inflight, n \in 1..MaxTotalPages : SearchOk(r, n)
    \/ \E r \in inflight : SearchFail(r)

Spec == Init /\ [][Next]_vars

\* ------------------------------------------------ the SearchFilters panel
\* The view with the filter panel opened up: instead of SubmitFilters, which
\* stands for any submission of the panel, the panel's inputs and buttons act on
\* its draft state.

\* onChange of the skill input of the panel.
DraftSkillEdit(v) ==
    /\ mounted
    /\ nextId <= MaxFetches
    /\ v # localSkillFilter
    /\ localSkillFilter' = v
    /\ toast' = "none" /\ failed' = NoReq
    /\ burst' = NoBurst
    /\ userAct' = "other"
    /\ UNCHANGED <<mounted, intent, localLocationFilter, view, flags, timers, inflight,
                   nextId, accepted, sinceChange, exc, recovery>>
    /\ UNCHANGED elsewhere
    /\ Render

\* onChange of the location input of the panel.
DraftLocationEdit(v) ==
    /\ mounted
    /\ nextId <= MaxFetches
    /\ v # localLocationFilter
    /\ localLocationFilter' = v
    /\ toast' = "none" /\ failed' = NoReq
    /\ burst' = NoBurst
    /\ userAct' = "other"
    /\ UNCHANGED <<mounted, intent, localSkillFilter, view, flags, timers, inflight,
                   nextId, accepted, sinceChange, exc, recovery>>
    /\ UNCHANGED elsewhere
    /\ Render

\* What every submission of the panel does besides its own draft writes.
PanelSubmit(fs, fl) ==
    /\ mounted
    /\ handleFilterChange(fs, fl)
    /\ exc' = ExcOnIntent /\ burst' = NoBurst
    /\ toast' = "none" /\ failed' = NoReq
    /\ userAct' = "other"
    /\ UNCHANGED <<mounted, searchQuery, users, totalPages, totalCount, hasNext,
                   hasPrevious, timers, accepted, sinceChange>>
    /\ UNCHANGED elsewhere
    /\ Render

\* handleApplyFilters: the Apply button, disabled while the drafts equal the
\* applied filters.
ApplyClick ==
    /\ ~(localSkillFilter = skillFilter /\ localLocationFilter = locationFilter)
    /\ PanelSubmit(localSkillFilter, localLocationFilter)
    /\ UNCHANGED drafts

\* handlePopularSkillClick of the panel: a Quick Skill Filters button.
QuickSkillClick(skillName) ==
    /\ localSkillFilter' = skillName
    /\ PanelSubmit(skillName, localLocationFilter)
    /\ UNCHANGED localLocationFilter

\* A click on the badge of the applied skill filter.
SkillBadgeClick ==
    /\ Truthy(skillFilter)
    /\ localSkillFilter' = ""
    /\ PanelSubmit("", locationFilter)
    /\ UNCHANGED localLocationFilter

\* A click on the badge of the applied location filter.
LocationBadgeClick ==
    /\ Truthy(locationFilter)
    /\ localLocationFilter' = ""
    /\ PanelSubmit(skillFilter, "")
    /\ UNCHANGED localSkillFilter

NextFilters ==
    \/ Mount
    \/ \E q \in Queries : QueryChange(q)
    \/ Tick
    \/ \E t \in timers : TimerFire(t)
    \/ \E p \in 0..(MaxTotalPages + 1) : PageClick(p)
    \/ \E v \in Skills : DraftSkillEdit(v)
    \/ \E v \in Locations : DraftLocationEdit(v)
    \/ ApplyClick
    \/ \E name \in PopularSkillNames : QuickSkillClick(name)
    \/ SkillBadgeClick
    \/ LocationBadgeClick
    \/ PanelClearClick
    \/ \E name \in PopularSkillNames : PopularSkillClick(name)
    \/ ClearFiltersClick
    \/ \E r \in inflight, n \in 1..MaxTotalPages : BrowseOk(r, n)
    \/ \E r \in inflight : BrowseFail(r)
    \/ \E r \in inflight, n \in 1..MaxTotalPages : SearchOk(r, n)
    \/ \E r \in inflight : SearchFail(r)

SpecFilters == Init /\ [][NextFilters]_vars

\* ------------------------------------------- handlePageChange on its own
\* handlePageChange(page) called by any caller, whatever the view renders: the
\* page block is rendered only while the query is empty, so the closed branch
\* of the handler's test is taken only when it is called directly.
PageChangeIntent(page) ==
    /\ mounted
    /\ handlePageChange(page)
    /\ exc' = ExcOnIntent /\ burst' = NoBurst
    /\ toast' = "none" /\ failed' = NoReq
    /\ UNCHANGED <<mounted, intent, view, timers, accepted, sinceChange>>
    /\ userAct' = "page" /\ UNCHANGED drafts
    /\ UNCHANGED elsewhere
    /\ Render

NextHandlers ==
    \/ Mount
    \/ \E q \in Queries : QueryChange(q)
    \/ Tick
    \/ \E t \in timers : TimerFire(t)
    \/ \E p \in 1..MaxTotalPages : PageChangeIntent(p)
    \/ \E r \in inflight, n \in 1..MaxTotalPages : BrowseOk(r, n)
    \/ \E r \in inflight : BrowseFail(r)
    \/ \E r \in inflight, n \in 1..MaxTotalPages : SearchOk(r, n)
    \/ \E r \in inflight : SearchFail(r)

SpecHandlers == Init /\ [][NextHandlers]_vars

\* ------------------------------------------------- the Pagination component
\* The component on its own, given any props with 1 <= currentPage <= totalPages
\* (hasNext and hasPrevious as the service derives them), before its render.
InitPagination ==
    /\ mounted = FALSE
    /\ searchQuery = <<>> /\ skillFilter = "" /\ locationFilter = ""
    /\ localSkillFilter = "" /\ localLocationFilter = ""
    /\ users = 0 /\ totalCount = 0
    /\ totalPages \in 1..MaxPropPages
    /\ currentPage \in 1..totalPages
    /\ hasNext = (currentPage < totalPages) /\ hasPrevious = (currentPage > 1)
    /\ loading = FALSE /\ searchLoading = FALSE
    /\ pageNumbers = <<>>
    /\ toast = "none"
    /\ timers = {} /\ inflight = {} /\ nextId = 1
    /\ accepted = NoReq /\ failed = NoReq /\ sinceChange = DebounceMs
    /\ burst = NoBurst
    /\ exc = NoExc
    /\ recovery = 0
    /\ userAct = "none"
    /\ InitSelector /\ InitWizard

\* const pageNumbers = generatePageNumbers();
PaginationRender ==
    /\ pageNumbers = <<>>
    /\ pageNumbers' = generatePageNumbers(currentPage, totalPages)
    /\ UNCHANGED <<mounted, intent, drafts, view, flags, toast, timers, inflight, nextId, hist>>
    /\ UNCHANGED elsewhere

NextPagination == PaginationRender

SpecPagination == InitPagination /\ [][NextPagination]_vars

\* ------------------------------------------------------- the SkillSelector
\* The skill selector on its own: its query, the debounced skill search and the
\* result list.  The timer callback runs up to its await as one action; the
\* setters after the await, the catch and the finally run as one later action.
SkillSearchRequest(q) == [id |-> selNextId, q |-> q]

\* The body of the debounce effect for the query q; the cleanup of the previous
\* run and the first line of this one have cleared the pending timer.
SkillSearchEffect(q) ==
    IF Len(Trim(q)) >= MinSkillQuery
    THEN /\ selTimer' = {q}
         /\ UNCHANGED <<searchResults, showResults>>
    ELSE /\ selTimer' = {}
         /\ searchResults' = 0
         /\ showResults' = FALSE

\* The dropdown is rendered.
ResultsRendered == showResults /\ (searchResults # 0 \/ isSearching)

\* onChange of the search input: setSearchQuery, then the effect of the render.
SkillQueryChange(q) ==
    /\ q # selQuery
    /\ selQuery' = q
    /\ SkillSearchEffect(q)
    /\ UNCHANGED <<isSearching, selInflight, selNextId, selectedLevel>>
    /\ UNCHANGED <<browse, wizard>>

\* The timer callback up to its await: setIsSearching(true), search_skills sent.
SkillTimerFire(q) ==
    /\ q \in selTimer
    /\ selNextId <= MaxSkillSearches
    /\ selTimer' = {}
    /\ isSearching' = TRUE
    /\ selInflight' = selInflight \cup {SkillSearchRequest(q)}
    /\ selNextId' = selNextId + 1
    /\ UNCHANGED <<selQuery, searchResults, showResults, selectedLevel>>
    /\ UNCHANGED <<browse, wizard>>

\* The response arrives: setSearchResults(data.skills || []), setShowResults(true),
\* and the finally.  found is FALSE when the service found no skill.
SkillSearchOk(r, found) ==
    /\ r \in selInflight
    /\ selInflight' = selInflight \ {r}
    /\ searchResults' = IF found THEN r.id ELSE 0
    /\ showResults' = TRUE
    /\ isSearching' = FALSE
    /\ UNCHANGED <<selQuery, selTimer, selNextId, selectedLevel>>
    /\ UNCHANGED <<browse, wizard>>

\* The request throws: the catch empties the list, then the finally.
SkillSearchFail(r) ==
    /\ r \in selInflight
    /\ selInflight' = selInflight \ {r}
    /\ searchResults' = 0
    /\ isSearching' = FALSE
    /\ UNCHANGED <<selQuery, showResults, selTimer, selNextId, selectedLevel>>
    /\ UNCHANGED <<browse, wizard>>

\* onFocus of the search input.
SkillInputFocus ==
    /\ Len(selQuery) >= MinSkillQuery
    /\ showResults' = TRUE
    /\ UNCHANGED <<selQuery, searchResults, isSearching, selTimer, selInflight, selNextId,
                   selectedLevel>>
    /\ UNCHANGED <<browse, wizard>>

\* A mousedown outside the selector.
SkillClickOutside ==
    /\ showResults' = FALSE
    /\ UNCHANGED <<selQuery, searchResults, isSearching, selTimer, selInflight, selNextId,
                   selectedLevel>>
    /\ UNCHANGED <<browse, wizard>>

\* The level select.
SkillLevelChange(l) ==
    /\ l # selectedLevel
    /\ selectedLevel' = l
    /\ UNCHANGED <<selQuery, searchResults, showResults, isSearching, selTimer, selInflight,
                   selNextId>>
    /\ UNCHANGED <<browse, wizard>>

\* A click on a skill of the rendered list.  Without a level the handler alerts
\* and returns; with one it clears the query, the level and the hidden flag, and
\* the effect runs again if the query changed.
handleSkillSelect ==
    /\ ResultsRendered /\ ~isSearching
    /\ IF selectedLevel = ""
       THEN UNCHANGED <<selQuery, searchResults, showResults, selTimer, selectedLevel>>
       ELSE /\ selQuery' = <<>>
            /\ selectedLevel' = ""
            /\ IF selQuery # <<>>
               THEN /\ selTimer' = {}
                    /\ searchResults' = 0
                    /\ showResults' = FALSE
               ELSE /\ showResults' = FALSE
                    /\ UNCHANGED <<searchResults, selTimer>>
    /\ UNCHANGED <<isSearching, selInflight, selNextId>>
    /\ UNCHANGED <<browse, wizard>>

NextSelector ==
    \/ \E q \in SkillQueries : SkillQueryChange(q)
    \/ \E q \in selTimer : SkillTimerFire(q)
    \/ \E r \in selInflight : \E found \in BOOLEAN : SkillSearchOk(r, found)
    \/ \E r \in selInflight : SkillSearchFail(r)
    \/ SkillInputFocus
    \/ SkillClickOutside
    \/ \E l \in Levels : SkillLevelChange(l)
    \/ handleSkillSelect

SpecSelector == Init /\ [][NextSelector]_vars

\* ------------------------------------------------- the ProfileSetup wizard
\* The wizard on its own.  The inputs of a step exist only while that step is
\* rendered: the name in step 2, the skill lists in steps 3 and 4, the privacy
\* toggle in step 5.  handleSubmit suspends at create_profile and at each
\* add_*_skill request; every continuation is one action.
canProceedUntrimmed(step) ==
    CASE step = 1 -> TRUE
      [] step = 2 -> Len(formData.name) > 0
      [] step \in 3..5 -> TRUE
      [] OTHER -> FALSE

canProceed(step) ==
    CASE step = 1 -> TRUE
      [] step = 2 -> Len(Trim(formData.name)) > 0
      [] step \in 3..5 -> TRUE
      [] OTHER -> FALSE

\* create_profile resolved with an ok response: the only outcome after which
\* handleSubmit goes on to the skill requests.
CreateSucceededUnchecked(outcome) == outcome # "throws"

CreateSucceeded(outcome) == outcome = "ok"

\* A step of the wizard that is no call of handleSubmit or of its continuations.
SubmitIdle == UNCHANGED <<isSubmitting, submission, skillRequests, navigated, submits,
                          createOutcome>>

handleNextUnguarded ==
    /\ currentStep' = currentStep + 1
    /\ wizLast' = [op |-> "next", from |-> currentStep]
    /\ UNCHANGED <<formData, offeredSkills, wantedSkills>>
    /\ SubmitIdle
    /\ UNCHANGED <<browse, selector>>

handleNext ==
    /\ currentStep' = IF currentStep < totalSteps THEN currentStep + 1 ELSE currentStep
    /\ wizLast' = [op |-> "next", from |-> currentStep]
    /\ UNCHANGED <<formData, offeredSkills, wantedSkills>>
    /\ SubmitIdle
    /\ UNCHANGED <<browse, selector>>

handlePrevious ==
    /\ currentStep' = IF currentStep > 1 THEN currentStep - 1 ELSE currentStep
    /\ wizLast' = [op |-> "previous", from |-> currentStep]
    /\ UNCHANGED <<formData, offeredSkills, wantedSkills>>
    /\ SubmitIdle
    /\ UNCHANGED <<browse, selector>>

\* The Next button: rendered before the last step, enabled while canProceed().
NextClick ==
    /\ ~navigated
    /\ currentStep < totalSteps /\ canProceed(currentStep)
    /\ handleNext

\* The Previous button: disabled in step 1 only.
PreviousClick ==
    /\ ~navigated
    /\ currentStep # 1
    /\ handlePrevious

\* handleNext called in the last step, where its button is not rendered, and
\* handlePrevious called in step 1, where its button is disabled.
NextAtLastStep == ~navigated /\ currentStep = totalSteps /\ handleNext

PreviousAtFirstStep == ~navigated /\ currentStep = 1 /\ handlePrevious

\* handleInputChange('name', value) from the input of step 2.
NameEdit(v) ==
    /\ ~navigated
    /\ currentStep = 2
    /\ v # formData.name
    /\ formData' = [formData EXCEPT !.name = v]
    /\ wizLast' = [op |-> "edit", from |-> currentStep]
    /\ UNCHANGED <<currentStep, offeredSkills, wantedSkills>>
    /\ SubmitIdle
    /\ UNCHANGED <<browse, selector>>

\* onToggle of the privacy toggle of step 5.
PrivacyToggle ==
    /\ ~navigated
    /\ currentStep = 5
    /\ formData' = [formData EXCEPT !.isPublic = ~formData.isPublic]
    /\ wizLast' = [op |-> "edit", from |-> currentStep]
    /\ UNCHANGED <<currentStep, offeredSkills, wantedSkills>>
    /\ SubmitIdle
    /\ UNCHANGED <<browse, selector>>

\* onSkillAdd / onSkillRemove of the selector of step 3 (d is +1 or -1).
OfferedSkillsEdit(d) ==
    /\ ~navigated
    /\ currentStep = 3
    /\ offeredSkills + d \in 0..MaxSkills
    /\ offeredSkills' = offeredSkills + d
    /\ wizLast' = [op |-> "edit", from |-> currentStep]
    /\ UNCHANGED <<currentStep, formData, wantedSkills>>
    /\ SubmitIdle
    /\ UNCHANGED <<browse, selector>>

\* onSkillAdd / onSkillRemove of the selector of step 4.
WantedSkillsEdit(d) ==
    /\ ~navigated
    /\ currentStep = 4
    /\ wantedSkills + d \in 0..MaxSkills
    /\ wantedSkills' = wantedSkills + d
    /\ wizLast' = [op |-> "edit", from |-> currentStep]
    /\ UNCHANGED <<currentStep, formData, offeredSkills>>
    /\ SubmitIdle
    /\ UNCHANGED <<browse, selector>>

\* handleSubmit from the Complete Setup button (last step, enabled while
\* canProceed() and not submitting), up to the await of create_profile.  The
\* call keeps the form data and the skill lists of the render it was made in.
handleSubmit ==
    /\ ~navigated
    /\ currentStep = totalSteps /\ canProceed(currentStep) /\ ~isSubmitting
    /\ submits < MaxSubmits
    /\ submits' = submits + 1
    /\ isSubmitting' = TRUE
    /\ submission' = [phase |-> "create", name |-> formData.name,
                      offered |-> offeredSkills, wanted |-> wantedSkills]
    /\ skillRequests' = 0
    /\ createOutcome' = "none"
    /\ wizLast' = [op |-> "submit", from |-> currentStep]
    /\ UNCHANGED <<currentStep, formData, offeredSkills, wantedSkills, navigated>>
    /\ UNCHANGED <<browse, selector>>

\* handleSubmit after an await that did not end the try block: the next skill
\* request of the two loops, or toast.success, navigate('/App') and the finally.
SubmitContinue(sub) ==
    IF sub.offered > 0
    THEN /\ submission' = [sub EXCEPT !.phase = "skill", !.offered = sub.offered - 1]
         /\ skillRequests' = skillRequests + 1
         /\ UNCHANGED <<isSubmitting, navigated>>
    ELSE IF sub.wanted > 0
    THEN /\ submission' = [sub EXCEPT !.phase = "skill", !.wanted = sub.wanted - 1]
         /\ skillRequests' = skillRequests + 1
         /\ UNCHANGED <<isSubmitting, navigated>>
    ELSE /\ submission' = NoSubmission
         /\ navigated' = TRUE
         /\ isSubmitting' = FALSE
         /\ UNCHANGED skillRequests

\* create_profile ends: an ok response, a response that is not ok, or a throw.
\* The last two reach the catch (toast.error) and the finally.
CreateDone(outcome) ==
    /\ submission.phase = "create"
    /\ createOutcome' = outcome
    /\ IF CreateSucceeded(outcome)
       THEN SubmitContinue(submission)
       ELSE /\ submission' = NoSubmission
            /\ isSubmitting' = FALSE
            /\ UNCHANGED <<skillRequests, navigated>>
    /\ wizLast' = [op |-> "create", from |-> currentStep]
    /\ UNCHANGED <<currentStep, formData, offeredSkills, wantedSkills, submits>>
    /\ UNCHANGED <<browse, selector>>

\* An add_offered_skill or add_wanted_skill request ends; a failure is logged
\* by the inner catch and the loop goes on.
SkillDone(ok) ==
    /\ submission.phase = "skill"
    /\ SubmitContinue(submission)
    /\ wizLast' = [op |-> IF ok THEN "skill" ELSE "skillError", from |-> currentStep]
    /\ UNCHANGED <<currentStep, formData, offeredSkills, wantedSkills, submits, createOutcome>>
    /\ UNCHANGED <<browse, selector>>

NextWizard ==
    \/ NextClick
    \/ PreviousClick
    \/ NextAtLastStep
    \/ PreviousAtFirstStep
    \/ \E v \in Names : NameEdit(v)
    \/ PrivacyToggle
    \/ \E d \in {-1, 1} : OfferedSkillsEdit(d)
    \/ \E d \in {-1, 1} : WantedSkillsEdit(d)
    \/ handleSubmit
    \/ \E outcome \in CreateOutcomes : CreateDone(outcome)
    \/ \E ok \in BOOLEAN : SkillDone(ok)

SpecWizard == Init /\ [][NextWizard]_vars

\* ------------------------------------------------------------------- claims
\* The mode the specification derives from a query: Search iff the trimmed
\* query is non-empty.
ModeOf(q) == IF Trim(q) = <<>> THEN "browse" ELSE "search"

\* The request parameter that stands for a stored filter value.
ParamOf(x) == IF x = "" THEN Absent ELSE x

\* This step settles the in-flight fetch r (its response or its failure arrives).
Settles(r) == r \in inflight /\ inflight' = inflight \ {r}

\* This step is the firing of the pending debounce timer t.
Fires(t) == t \in timers /\ timers' = timers \ {t}

\* C1: when a fetch A settles after the response of a later fetch B of the same
\* mode has been applied, the displayed users and pagination remain those of B.
C1_StaleSameModeDiscarded ==
    [][\A r \in inflight :
          (Settles(r) /\ r.kind = accepted.kind /\ r.id < accepted.id)
              => view' = view]_vars

\* C2: a fetch of the other mode than the query's, settling after a fetch of
\* the query's mode was issued later than it, is never applied to the view.
C2_OtherModeDiscarded ==
    [][\A r \in inflight :
          (/\ Settles(r)
           /\ r.kind # ModeOf(searchQuery)
           /\ \E n \in inflight \cup {accepted} :
                 n.id > r.id /\ n.kind = ModeOf(searchQuery))
              => view' = view]_vars

\* C3: with no fetch in flight and no timer pending, the displayed results come
\* from a Search response iff the trimmed query is non-empty, and from a Browse
\* response iff it is empty (stated for the states that show a result set and
\* that the handling of a failure did not lead to).
C3_ShownModeMatchesQuery ==
    (Quiescent /\ accepted.kind # "none" /\ failed = NoReq)
        => /\ accepted.kind = "search" <=> Trim(searchQuery) # <<>>
           /\ accepted.kind = "browse" <=> Trim(searchQuery) = <<>>

\* C4: a run of query changes, each less than 300ms after the one before, leads
\* to exactly one fetch, issued 300ms after the last change and carrying the
\* final query: a query change issues no fetch, at most one timer is pending,
\* and the timer that fires is the one of the last change.
C4_DebounceOneFetch ==
    [][/\ searchQuery' # searchQuery => (inflight' = inflight /\ nextId' = nextId)
       /\ Cardinality(timers') <= 1
       /\ \A t \in timers :
             Fires(t) =>
               /\ sinceChange = DebounceMs
               /\ t.q = searchQuery
               /\ nextId' = nextId + 1
               /\ \E r \in inflight' :
                     /\ r \notin inflight /\ inflight' = inflight \cup {r}
                     /\ r.kind = ModeOf(searchQuery)
                     /\ r.kind = "search" => r.q = searchQuery]_vars

\* Three rapid query changes have ended in one Search fetch with the final query.
C4_Witness ==
    /\ burst.n = 3 /\ burst.fired
    /\ nextId = 3
    /\ \E r \in inflight : r.id = 2 /\ r.kind = "search" /\ r.q = searchQuery

\* C5: the mode is Search iff the trimmed query is non-empty, by the same test
\* wherever the mode is consulted (fetch selection, page guard, pagination and
\* heading).
C5_OneModeTest ==
    /\ SelectedFetch(searchQuery) = ModeOf(searchQuery)
    /\ PageGuardOpen(searchQuery) <=> ModeOf(searchQuery) = "browse"

\* The fetch this step issues, if it issues one.
Issued == inflight' \ inflight

\* C6, as claimed: after a clean excursion (query set, then cleared, no filter or
\* page intent in between) that started at page p with filters (s, l), once all
\* fetches have settled the view shows Browse results for (s, l) at page p.
C6_ExcursionRestoresPage ==
    (exc.phase = "issued" /\ Quiescent)
        => /\ accepted.kind = "browse"
           /\ accepted.skill = ParamOf(exc.skill)
           /\ accepted.location = ParamOf(exc.location)
           /\ currentPage = exc.page

\* C6, amended: the Browse fetch that the timer of the clearing issues asks for
\* the filters (s, l) of the start of the excursion and for page 1, and when its
\* response is the one displayed the view shows that fetch's users at page 1.
C6_ExcursionRestoresFilters ==
    exc.phase = "issued"
        => /\ exc.req.kind = "browse"
           /\ exc.req.page = 1
           /\ exc.req.skill = ParamOf(exc.skill)
           /\ exc.req.location = ParamOf(exc.location)
           /\ accepted.id = exc.req.id
                => (accepted = exc.req /\ users = exc.req.id /\ currentPage = 1)

\* An excursion that started at page 2 has ended with the page-1 response shown.
C6_Witness ==
    /\ exc.phase = "issued" /\ exc.page = 2
    /\ accepted.id = exc.req.id /\ Quiescent

\* C7: the Browse fetch issued for the clearing of the query requests page 1,
\* whatever page was displayed before.
C7_ClearedQueryPageOne ==
    [][\A t \in timers :
          (Fires(t) /\ exc.phase = "back")
              => \E r \in Issued : r.kind = "browse" /\ r.page = 1]_vars

\* The fetch of the clearing is in flight, for page 1, while page 2 is displayed.
C7_Witness ==
    /\ exc.phase = "issued" /\ exc.req \in inflight
    /\ currentPage = 2 /\ exc.req.page = 1

\* C8, as claimed: the step that clears a non-empty query issues the Browse
\* fetch for page 1.
C8_ClearFetchesAtOnce ==
    [][(Trim(searchQuery) # <<>> /\ Trim(searchQuery') = <<>>)
          => \E r \in Issued : r.kind = "browse" /\ r.page = 1]_vars

\* C8, amended: the step that clears a non-empty query issues no fetch; it arms
\* the debounce timer, and the Browse fetch for page 1 is issued when that timer
\* fires, 300ms after the last query change.
C8_ClearFetchesAfterDebounce ==
    [][/\ (Trim(searchQuery) # <<>> /\ Trim(searchQuery') = <<>>)
          => /\ Issued = {} /\ inflight' = inflight
             /\ \E t \in timers' :
                   timers' = {t} /\ t.q = searchQuery' /\ t.left = DebounceMs
       /\ \A t \in timers :
             (Fires(t) /\ exc.phase = "back")
                 => /\ sinceChange = DebounceMs
                    /\ \E r \in Issued : r.kind = "browse" /\ r.page = 1]_vars

\* The query was cleared 300ms ago and its Browse fetch is not issued yet.
C8_Witness ==
    /\ exc.phase = "back" /\ inflight = {}
    /\ \E t \in timers : t.left = 0 /\ Trim(t.q) = <<>>

\* C9: the Browse fetch issued for the clearing of the query carries the skill
\* and location filters that are stored when it is issued.
C9_ClearedFetchCurrentFilters ==
    [][\A t \in timers :
          (Fires(t) /\ exc.phase = "back")
              => \E r \in Issued :
                    /\ r.kind = "browse"
                    /\ r.skill = ParamOf(skillFilter)
                    /\ r.location = ParamOf(locationFilter)]_vars

\* C10: the failure of a fetch leaves the displayed users and pagination as they
\* are, raises the error toast of its kind and turns off its loading flag.
C10_FailureKeepsView ==
    [][\A r \in inflight :
          (Settles(r) /\ failed' = r)
              => /\ view' = view
                 /\ accepted' = accepted
                 /\ IF r.kind = "browse"
                    THEN /\ toast' = "Failed to load users"
                         /\ loading' = FALSE /\ searchLoading' = searchLoading
                    ELSE /\ toast' = "Failed to search users"
                         /\ searchLoading' = FALSE /\ loading' = loading]_vars

\* The Browse fetch for page 2 has failed while page 1 of 2 stays displayed.
C10_Witness ==
    /\ failed.kind = "browse" /\ failed.page = 2
    /\ accepted.kind = "browse" /\ users = accepted.id /\ users # 0
    /\ currentPage = 1 /\ totalPages = 2
    /\ toast = "Failed to load users" /\ ~loading

\* C11: no Browse fetch is ever dispatched with a page below 1: none is in
\* flight, and no button that the rendered page block offers makes
\* handlePageChange send one.
C11_NoPageBelowOne ==
    /\ \A r \in inflight : r.kind = "browse" => r.page >= 1
    /\ (mounted /\ PaginationVisible)
          => \A p \in PageClickTargets :
                BrowseRequest(p, Undefined, Undefined, skillFilter, locationFilter).page >= 1

\* C12: in Browse mode, a clear-filters action (the Clear Filters button of the
\* results header, the clear button of the filter panel) issues a Browse fetch
\* for page 1 without skill and location filter, and empties both stored filters.
C12_ClearFiltersFetchesUnfiltered ==
    [][(ModeOf(searchQuery) = "browse" /\ (ClearFiltersClick \/ PanelClearClick))
          => /\ \E r \in Issued :
                   /\ r.kind = "browse" /\ r.page = 1
                   /\ r.skill = Absent /\ r.location = Absent
             /\ skillFilter' = "" /\ locationFilter' = ""]_vars

\* C13: for 1 <= currentPage <= totalPages = N the page list is 1..N when
\* N <= 5; otherwise <<1,2,3,4,ellipsis,N>> when currentPage <= 3,
\* <<1,ellipsis,N-3,N-2,N-1,N>> when currentPage >= N-2, and
\* <<1,ellipsis,c-1,c,c+1,ellipsis,N>> for any other current page c.
C13_PageWindow ==
    pageNumbers # <<>> =>
        LET c == currentPage
            N == totalPages
        IN  /\ N <= 5 => pageNumbers = [i \in 1..N |-> i]
            /\ (N > 5 /\ c <= 3) => pageNumbers = <<1, 2, 3, 4, Ellipsis, N>>
            /\ (N > 5 /\ c > 3 /\ c >= N - 2)
                  => pageNumbers = <<1, Ellipsis, N - 3, N - 2, N - 1, N>>
            /\ (N > 5 /\ c > 3 /\ c < N - 2)
                  => pageNumbers = <<1, Ellipsis, c - 1, c, c + 1, Ellipsis, N>>
            /\ (N = 10 /\ c = 1) => pageNumbers = <<1, 2, 3, 4, Ellipsis, 10>>
            /\ (N = 10 /\ c = 5) => pageNumbers = <<1, Ellipsis, 4, 5, 6, Ellipsis, 10>>
            /\ (N = 10 /\ c = 10) => pageNumbers = <<1, Ellipsis, 7, 8, 9, 10>>
            /\ N = 3 => pageNumbers = <<1, 2, 3>>

\* Page 5 of 10 has been rendered with an ellipsis on both sides.
C13_Witness ==
    /\ totalPages = 10 /\ currentPage = 5
    /\ pageNumbers = <<1, Ellipsis, 4, 5, 6, Ellipsis, 10>>

\* C14: every Browse fetch is sent with page size 12, and carries the skill
\* (location) filter iff the skill (location) filter stored right after the step
\* that issued it is non-empty, and then with that stored value.
C14_BrowseCarriesStoredFilters ==
    [][\A r \in Issued :
          r.kind = "browse"
              => /\ r.size = 12
                 /\ r.skill = ParamOf(skillFilter')
                 /\ r.location = ParamOf(locationFilter')]_vars

\* C15: a Search fetch is issued only for a query whose trimmed value is
\* non-empty; it carries the whole query as typed, as one string, and limit 20.
C15_SearchCarriesFullQuery ==
    [][\A r \in Issued :
          r.kind = "search"
              => /\ Trim(searchQuery) # <<>>
                 /\ r.q = searchQuery
                 /\ r.size = 20
                 /\ r.skill = Absent /\ r.location = Absent]_vars

\* A Search fetch is in flight for a query typed with a leading blank.
C15_Witness ==
    \E r \in inflight :
        r.kind = "search" /\ r.q = searchQuery /\ Head(r.q) = " " /\ Trim(r.q) # r.q

\* C16: the step that applies a Search response sets the displayed pagination
\* to page 1 of 1 with no next and no previous page, whatever it was before,
\* and sets the user list and the total count to those of the response.
C16_SearchResetsPagination ==
    [][\A r \in inflight :
          (Settles(r) /\ r.kind = "search" /\ failed' = NoReq)
              => /\ currentPage' = 1 /\ totalPages' = 1
                 /\ hasNext' = FALSE /\ hasPrevious' = FALSE
                 /\ \E n \in 1..MaxTotalPages :
                       /\ users' = SearchData(r, n).users
                       /\ totalCount' = SearchData(r, n).total_count
                 /\ accepted' = r]_vars

\* A Search response is displayed as page 1 of 1 although page 2 had been asked
\* for (the pagination showed several pages before).
C16_Witness ==
    /\ accepted.kind = "search" /\ users = accepted.id
    /\ currentPage = 1 /\ totalPages = 1 /\ ~hasNext /\ ~hasPrevious
    /\ \E r \in inflight : r.kind = "browse" /\ r.page = 2 /\ r.id < accepted.id

\* C17, the intents: while the view is mounted (and the run may still issue a
\* fetch), a query change is accepted and its timer runs and fires, and a filter
\* submission, a popular-skill click and (with a filter set) a clear-filters
\* click issue their fetch; right after the failure of a Browse fetch the page
\* buttons are shown again and a click on one issues its fetch.
C17_IntentsOpen ==
    (mounted /\ nextId <= MaxFetches)
        => /\ \A q \in Queries \ {searchQuery} : ENABLED QueryChange(q)
           /\ \A t \in timers :
                 IF t.left = 0 THEN ENABLED TimerFire(t) ELSE ENABLED Tick
           /\ \A fs \in Skills, fl \in Locations : ENABLED SubmitFilters(fs, fl)
           /\ \A name \in PopularSkillNames : ENABLED PopularSkillClick(name)
           /\ (skillFilter # "" \/ locationFilter # "")
                 => (ENABLED ClearFiltersClick /\ ENABLED PanelClearClick)
           /\ (failed.kind = "browse" /\ searchQuery = <<>> /\ totalPages > 1)
                 => \A p \in 1..totalPages : ENABLED PageClick(p)

\* C17, the responses: a response can arrive for every fetch in flight (of a
\* page the service has), and the step that handles it displays it.
C17_ResponsesApplied ==
    /\ [](\A r \in inflight :
             /\ (r.kind = "browse" /\ r.page >= 1) => ENABLED BrowseOk(r, 1)
             /\ r.kind = "search" => ENABLED SearchOk(r, 1))
    /\ [][\A r \in inflight :
             (Settles(r) /\ failed' = NoReq) => (accepted' = r /\ users' = r.id)]_vars

\* C17: after any fetch failure no intent is blocked: a later query change,
\* filter submission, page change or clear-filters still issues its fetch, and
\* a successful response to that fetch is applied to the view.
C17_UsableAfterFailure == []C17_IntentsOpen /\ C17_ResponsesApplied

\* The fetch issued right after a failure has been answered and is displayed.
C17_Witness ==
    /\ recovery # 0 /\ accepted.id = recovery /\ users = recovery
    /\ recovery \notin {r.id : r \in inflight}

\* C18: a Browse fetch is issued only while the mode derived from the query is
\* Browse, and a Search fetch only while it is Search.
C18_FetchOfCurrentMode ==
    [][\A r \in Issued : r.kind = ModeOf(searchQuery)]_vars

\* The view that displays the response d of a Browse fetch.
ViewOfBrowse(d) ==
    <<d.users, d.page, d.total_pages, d.total_count, d.has_next, d.has_previous>>

\* C19: in every state the displayed page, total pages, total count, hasNext and
\* hasPrevious stem from the one accepted response that the displayed user list
\* stems from, or all are initial values.
C19_ViewOfOneResponse ==
    \/ accepted = NoReq /\ view = <<0, 1, 1, 0, FALSE, FALSE>>
    \/ /\ accepted.kind = "browse"
       /\ \E n \in 1..MaxTotalPages : view = ViewOfBrowse(BrowseData(accepted, n))
    \/ /\ accepted.kind = "search"
       /\ \E n \in 1..MaxTotalPages :
             view = <<SearchData(accepted, n).users, 1, 1,
                      SearchData(accepted, n).total_count, FALSE, FALSE>>

\* The loading flag of the fetches of kind k.
FlagOf(k) == IF k = "browse" THEN loading ELSE searchLoading

\* C20: while the fetch issued last is in flight, the loading flag of its kind
\* is on (loading for a Browse fetch, searchLoading for a Search fetch), and
\* the completion of a fetch does not turn the flag off while a fetch of the
\* same kind issued after it is in flight.
C20_LoadingWhileLatestInFlight ==
    /\ [](\A r \in inflight : r.id = nextId - 1 => FlagOf(r.kind))
    /\ [][\A r \in inflight :
             (/\ Settles(r)
              /\ \E n \in inflight : n.kind = r.kind /\ n.id > r.id
              /\ FlagOf(r.kind))
                 => IF r.kind = "browse" THEN loading' ELSE searchLoading']_vars

\* C21: whenever every issued fetch has settled and no debounce timer is
\* pending, loading and searchLoading are both false.
C21_NoFlagStuck ==
    Quiescent => (~loading /\ ~searchLoading)

\* Three fetches have been issued and all have settled, the last one with a
\* failure, and no timer is pending.
C21_Witness ==
    /\ Quiescent /\ nextId = 4 /\ failed # NoReq
    /\ ~loading /\ ~searchLoading

\* C22: for 1 <= currentPage <= totalPages the page list contains page 1, the
\* last page and the current page; its numbers increase strictly; and an
\* ellipsis stands between two consecutive numbers exactly when they differ by
\* more than 1 (so never between adjacent numbers, never two in a row, never
\* first or last).
C22_PageListShape ==
    pageNumbers # <<>> =>
        LET L == pageNumbers
            n == Len(pageNumbers)
        IN  /\ \E i \in 1..n : L[i] = 1
            /\ \E i \in 1..n : L[i] = totalPages
            /\ \E i \in 1..n : L[i] = currentPage
            /\ L[1] # Ellipsis /\ L[n] # Ellipsis
            /\ \A i \in 1..(n - 1) :
                  /\ (L[i] # Ellipsis /\ L[i + 1] # Ellipsis) => L[i + 1] = L[i] + 1
                  /\ L[i] = Ellipsis
                        => /\ L[i + 1] # Ellipsis /\ L[i - 1] # Ellipsis
                           /\ L[i + 1] - L[i - 1] > 1

\* Page 4 of 8 has been rendered: both gaps are marked, the window 3..5 is not.
C22_Witness ==
    /\ totalPages = 8 /\ currentPage = 4
    /\ Len(pageNumbers) = 7
    /\ pageNumbers[2] = Ellipsis /\ pageNumbers[6] = Ellipsis
    /\ pageNumbers[4] = currentPage

\* C23: a query change, the issue of a Search fetch and the handling of a
\* Search response or failure leave the stored skill and location filters as
\* they are.
C23_SearchKeepsFilters ==
    [][(\/ searchQuery' # searchQuery
        \/ \E r \in Issued : r.kind = "search"
        \/ \E r \in inflight : Settles(r) /\ r.kind = "search")
          => (skillFilter' = skillFilter /\ locationFilter' = locationFilter)]_vars

\* A Search response is displayed while the skill filter submitted before the
\* query was typed is still stored.
C23_Witness ==
    /\ accepted.kind = "search" /\ users = accepted.id
    /\ Trim(searchQuery) # <<>>
    /\ skillFilter = "Design"

\* C24: as long as the user has done nothing, the mounted view (empty query) has
\* issued exactly one fetch, a Browse fetch for page 1 without filters: the
\* timer armed at mount issues no second one.
C24_MountFetchesOnce ==
    (mounted /\ userAct = "none")
        => /\ nextId = 2
           /\ \A r \in inflight :
                 /\ r.id = 1 /\ r.kind = "browse" /\ r.page = 1
                 /\ r.skill = Absent /\ r.location = Absent

\* C25: while the query as typed is non-empty, a page-change intent issues no
\* fetch, raises no toast and leaves users, pagination, query, filters, loading
\* flags, timers and the fetches in flight as they are.
C25_PageIntentBlockedInSearch ==
    [][(userAct' = "page" /\ searchQuery # <<>>)
          => /\ Issued = {} /\ inflight' = inflight /\ nextId' = nextId
             /\ UNCHANGED <<intent, drafts, view, flags, pageNumbers, timers>>
             /\ toast' = "none"]_vars

\* A page-change intent has just been handled while Search results for the
\* typed query are displayed.
C25_Witness ==
    /\ userAct = "page" /\ searchQuery # <<>>
    /\ accepted.kind = "search" /\ users = accepted.id /\ inflight = {}

\* C26: whenever a step changes the applied skill or location filter, the draft
\* inputs of the filter panel equal the applied filters after it (so that the
\* Apply button is disabled).
C26_DraftsFollowApplied ==
    [][(skillFilter' # skillFilter \/ locationFilter' # locationFilter)
          => (localSkillFilter' = skillFilter' /\ localLocationFilter' = locationFilter')]_vars

\* C27: in the skill selector, whenever the trimmed query has fewer than 2
\* characters and no debounce timer is pending, the result list is empty and
\* the dropdown is not rendered.
C27_ShortQueryNoResults ==
    (Len(Trim(selQuery)) < MinSkillQuery /\ selTimer = {})
        => (searchResults = 0 /\ ~ResultsRendered)

\* C28: in the setup wizard, whenever the current step is 3 or higher the
\* trimmed name is non-empty, and every handleSubmit call that is under way
\* sent create_profile with a name whose trimmed form is non-empty.
C28_NameSetFromStepThree ==
    /\ currentStep >= 3 => Trim(formData.name) # <<>>
    /\ submission.phase # "idle" => Trim(submission.name) # <<>>

\* Complete Setup has just been pressed in the last step: create_profile is
\* under way with the name that passed step 2.
C28_Witness ==
    /\ currentStep = totalSteps /\ wizLast.op = "submit"
    /\ submission.phase = "create" /\ submission.name = formData.name

\* C29: the step in which create_profile ends with a throw or a response that
\* is not ok sends no skill request, does not navigate, leaves the step, the
\* form data and the skill lists as they are and sets isSubmitting to false;
\* and until Complete Setup is pressed again, that call has sent no skill
\* request, has not navigated and is no longer under way.
C29_CreateFailureStopsSubmit ==
    /\ [](createOutcome \in {"notok", "throws"}
            => /\ skillRequests = 0 /\ ~navigated
               /\ submission = NoSubmission /\ ~isSubmitting)
    /\ [][(submission.phase = "create" /\ createOutcome' \in {"notok", "throws"})
            => /\ UNCHANGED <<currentStep, formData, offeredSkills, wantedSkills,
                              skillRequests, navigated>>
               /\ isSubmitting' = FALSE]_vars

\* create_profile has just answered with a response that is not ok, for a
\* submission that had an offered and a wanted skill to send.
C29_Witness ==
    /\ createOutcome = "notok" /\ wizLast = [op |-> "create", from |-> totalSteps]
    /\ currentStep = totalSteps /\ offeredSkills = 1 /\ wantedSkills = 1
    /\ ~isSubmitting

\* C30: currentStep is always within 1..5; after handleNext it is one more than
\* before, except in step 5 where it is unchanged; after handlePrevious it is one
\* less than before, except in step 1 where it is unchanged.
C30_StepWithinBounds ==
    /\ currentStep \in 1..totalSteps
    /\ wizLast.op = "next"
          => currentStep = IF wizLast.from = totalSteps THEN totalSteps ELSE wizLast.from + 1
    /\ wizLast.op = "previous"
          => currentStep = IF wizLast.from = 1 THEN 1 ELSE wizLast.from - 1

\* handleNext has just been called in the last step.
C30_Witness ==
    /\ wizLast = [op |-> "next", from |-> totalSteps]
    /\ currentStep = totalSteps

====
